---- MODULE Spec2Model ----
(***************************************************************************)
(* Model of the batched sumcheck prover (batch_prove) and of the round     *)
(* polynomial codec (RoundCoeffs / RoundProof) of binius' sumcheck_v2.     *)
(*                                                                         *)
(* batch_prove is modelled step by step: one action per transcript call    *)
(* and per prover call, in the order of the code.  The provers and the     *)
(* challenger are trait objects.  A prover is given by its n_vars() and    *)
(* the number of coefficients of its round messages; what it returns is a  *)
(* function of these, of the challenges folded into it and of the batch    *)
(* coefficient.  What the challenger samples is drawn from a small set.    *)
(* Every call is appended to `log`, the total order of the calls           *)
(* batch_prove has made so far.                                            *)
(***************************************************************************)
EXTENDS Integers, Sequences, FiniteSets, TLC

----------------------------------------------------------------------------
(* Bounds *)

MaxProvers == 2
MaxVars == 2
MaxCoeffLen == 2
MaxQueryVars == 3
MaxExtra == 2
MaxOuter == 2
MaxInner == 2
MaxId == 1
MaxSums == 2
MaxStepVars == 3

----------------------------------------------------------------------------
(* The field: the binary tower field GF(4) = GF(2)[X]/(X^2 + X + 1), an    *)
(* element a0 + a1*X being the integer a0 + 2*a1.  Characteristic 2.       *)

F == 0 .. 3

FAdd(a, b) ==
  LET a0 == a % 2
      a1 == a \div 2
      b0 == b % 2
      b1 == b \div 2
  IN  ((a0 + b0) % 2) + 2 * ((a1 + b1) % 2)

FSub(a, b) == FAdd(a, b)

FMul(a, b) ==
  LET a0 == a % 2
      a1 == a \div 2
      b0 == b % 2
      b1 == b \div 2
  IN  ((a0 * b0 + a1 * b1) % 2) + 2 * ((a0 * b1 + a1 * b0 + a1 * b1) % 2)

----------------------------------------------------------------------------
(* Iterator helpers *)

Reverse(s) == [i \in 1 .. Len(s) |-> s[Len(s) + 1 - i]]

RECURSIVE IterSum(_)
IterSum(s) == IF s = <<>> THEN 0 ELSE FAdd(s[1], IterSum(Tail(s)))

RECURSIVE IterMax(_)
IterMax(s) ==
  IF s = <<>> THEN 0
  ELSE LET m == IterMax(Tail(s)) IN IF s[1] > m THEN s[1] ELSE m

IsSortedAscending(s) == \A i \in 1 .. Len(s) - 1 : ~(s[i + 1] < s[i])

----------------------------------------------------------------------------
(* RoundCoeffs and RoundProof (common.rs) *)

\* nothing dropped
Truncate_Keep(coeffs) ==
  SubSeq(coeffs, 1, Len(coeffs))

Truncate(coeffs) ==
  LET new_len == IF Len(coeffs) >= 1 THEN Len(coeffs) - 1 ELSE 0
  IN  SubSeq(coeffs, 1, new_len)

\* the zip without the resize
AddAssign_NoResize(self, rhs) ==
  [i \in 1 .. Len(self) |->
     IF i <= Len(rhs) THEN FAdd(self[i], rhs[i]) ELSE self[i]]

AddAssign(self, rhs) ==
  LET resized == IF Len(self) < Len(rhs)
                 THEN self \o [i \in 1 .. Len(rhs) - Len(self) |-> 0]
                 ELSE self
  IN  [i \in 1 .. Len(resized) |->
         IF i <= Len(rhs) THEN FAdd(resized[i], rhs[i]) ELSE resized[i]]

MulAssign_NoScale(coeffs, rhs) == coeffs

MulAssign(coeffs, rhs) == [i \in 1 .. Len(coeffs) |-> FMul(coeffs[i], rhs)]

Recover_NoFirst(coeffs, sum) ==
  Append(coeffs, FSub(sum, IterSum(coeffs)))

Recover(coeffs, sum) ==
  LET first_coeff == IF coeffs = <<>> THEN 0 ELSE coeffs[1]
      last_coeff == FSub(FSub(sum, first_coeff), IterSum(coeffs))
  IN  Append(coeffs, last_coeff)

----------------------------------------------------------------------------
(* The trait objects *)

RECURSIVE SeqsUpTo(_, _)
\* the sequences over S of length at most n
SeqsUpTo(S, n) ==
  IF n = 0 THEN {<<>>}
  ELSE LET shorter == SeqsUpTo(S, n - 1)
       IN  shorter \cup {Append(s, v) : s \in {t \in shorter : Len(t) = n - 1}, v \in S}

\* values the challenger's sample() may return
SampleVals == {2, 3}

\* a prover: its n_vars() and the number of coefficients of its round messages
ProverKinds == [n_vars : 0 .. MaxVars, n_coeffs : 0 .. MaxCoeffLen]

\* the inputs of batch_prove
ProverLists == SeqsUpTo(ProverKinds, MaxProvers)

\* the round message of prover p after the challenges st have been folded in
ExecuteRet(p, st, batch_coeff) ==
  [i \in 1 .. p.n_coeffs |->
     FAdd(FMul(batch_coeff, ((i + Len(st)) % 3) + 1), IterSum(st))]

\* the evaluations prover p returns after the challenges st have been folded in
FinishRet(p, st) == <<p.n_coeffs>> \o st

----------------------------------------------------------------------------
VARIABLES
  provers,          \* the input: the provers (ProverKinds), in input order
  pc,               \* position of batch_prove
  n_rounds, round_no, active_index, batch_coeffs, challenges, rounds,
  round_coeffs,     \* the accumulator of the current round
  idx,              \* number of provers the current loop has gone through
  multilinear_evals,
  folded,           \* per prover, the challenges folded into it so far
  log,              \* the calls made so far on the transcript and the provers
  result,           \* "none" while running, then "ok" or the error
  output, proof,    \* the returned pair, when result = "ok"
  cpc, c_coeffs, c_sum, c_out,  \* the recover harness
  apc, a_in, a_order, a_out,    \* the addition harness
  qpc,              \* the query harness: "new", "live" or the error returned
  q_width,          \* P::WIDTH, the packing width of the query
  q_max,            \* max_query_vars given to new
  query,            \* the MultilinearQuery
  q_chal,           \* the challenges folded in so far, in order
  q_splits,         \* the number of challenges of each successful update
  q_last,           \* the challenges of the last update call
  ipc,              \* the index harness: "input", "built", "evaluated" or the error
  i_superset,       \* arguments of index_composition
  i_subset,
  i_composition,
  i_built,          \* the IndexComposition returned
  i_query,          \* argument of evaluate
  i_ret,            \* what evaluate returned
  wpc,              \* the witness harness: "live" or the error of an update
  entries,          \* the MultilinearExtensionIndex
  w_got,            \* the last call, when it was get: arguments and result
  w_reg,            \* per id, the level and values of its backed registration
  w_order,          \* ids named by updates, in the order of their last update
  w_track,          \* which history is recorded: "registrations" or "frame"
  w_named,          \* the ids named by the last update call
  w_handle,         \* per id, the handle update_multilin_poly registered
  kpc,              \* the claim harness: "input", "built", "measured" or the error
  k_n_vars,         \* arguments of SumcheckClaim::new
  k_n_multilinears,
  k_composite_sums,
  k_claim,          \* the SumcheckClaim returned
  k_ret,            \* what max_individual_degree returned
  spc,              \* the step-down harness: "input", "built", the call made or the error
  s_n_vars,         \* arguments of StepDown::new
  s_index,
  s_self,           \* the StepDown returned
  s_arg,            \* the query of evaluate, or the LOG_WIDTH of multilinear_extension
  s_ret             \* what the call returned

bvars == <<provers, pc, n_rounds, round_no, active_index, batch_coeffs,
           challenges, rounds, round_coeffs, idx, multilinear_evals, folded,
           log, result, output, proof>>
cvars == <<cpc, c_coeffs, c_sum, c_out>>
avars == <<apc, a_in, a_order, a_out>>
qvars == <<qpc, q_width, q_max, query, q_chal, q_splits, q_last>>
ivars == <<ipc, i_superset, i_subset, i_composition, i_built, i_query, i_ret>>
wvars == <<wpc, entries, w_got, w_reg, w_order, w_track, w_named, w_handle>>
kvars == <<kpc, k_n_vars, k_n_multilinears, k_composite_sums, k_claim, k_ret>>
svars == <<spc, s_n_vars, s_index, s_self, s_arg, s_ret>>
hvars == <<cvars, avars, qvars, ivars, wvars, kvars, svars>>
vars == <<bvars, hvars>>

EmptyOutput == [challenges |-> <<>>, multilinear_evals |-> <<>>]
DefaultProof == [rounds |-> <<>>, multilinear_evals |-> <<>>]

\* a call: op is "sample", "observe", "execute", "fold" or "finish";
\* p is the prover called (for a sample: the prover the batch coefficient is
\* sampled for; 0 for the round challenge and for observe), arg and ret are
\* the values passed and returned, as sequences
Call(op, p, round, arg, ret) ==
  [op |-> op, p |-> p, round |-> round, arg |-> arg, ret |-> ret]

BatchInitWith(ps) ==
  /\ provers = ps
  /\ pc = "entry"
  /\ n_rounds = 0
  /\ round_no = 0
  /\ active_index = 0
  /\ batch_coeffs = <<>>
  /\ challenges = <<>>
  /\ rounds = <<>>
  /\ round_coeffs = <<>>
  /\ idx = 0
  /\ multilinear_evals = <<>>
  /\ folded = [j \in 1 .. Len(ps) |-> <<>>]
  /\ log = <<>>
  /\ result = "none"
  /\ output = EmptyOutput
  /\ proof = DefaultProof

CodecIdle ==
  /\ cpc = "idle"
  /\ c_coeffs = <<>>
  /\ c_sum = 0
  /\ c_out = <<>>

AddIdle ==
  /\ apc = "idle"
  /\ a_in = <<>>
  /\ a_order = <<>>
  /\ a_out = <<>>

NoQuery == [expanded_query |-> <<>>, expanded_query_len |-> 0, n_vars |-> 0]

QueryIdle ==
  /\ qpc = "idle"
  /\ q_width = 1
  /\ q_max = 0
  /\ query = NoQuery
  /\ q_chal = <<>>
  /\ q_splits = <<>>
  /\ q_last = <<>>

NoComposition == [n_vars |-> 0, degree |-> 0, tower_level |-> 0]

NoIndexComposition == [n_vars |-> 0, indices |-> <<>>, composition |-> NoComposition]

IndexIdle ==
  /\ ipc = "idle"
  /\ i_superset = <<>>
  /\ i_subset = <<>>
  /\ i_composition = NoComposition
  /\ i_built = NoIndexComposition
  /\ i_query = <<>>
  /\ i_ret = <<>>

None == [some |-> FALSE]

WitnessIdle ==
  /\ wpc = "idle"
  /\ entries = <<>>
  /\ w_got = None
  /\ w_reg = <<>>
  /\ w_order = <<>>
  /\ w_track = "registrations"
  /\ w_named = {}
  /\ w_handle = <<>>

NoClaim == [n_vars |-> 0, n_multilinears |-> 0, composite_sums |-> <<>>]

ClaimIdle ==
  /\ kpc = "idle"
  /\ k_n_vars = 0
  /\ k_n_multilinears = 0
  /\ k_composite_sums = <<>>
  /\ k_claim = NoClaim
  /\ k_ret = 0

NoStepDown == [n_vars |-> 0, index |-> 0]

StepIdle ==
  /\ spc = "idle"
  /\ s_n_vars = 0
  /\ s_index = 0
  /\ s_self = NoStepDown
  /\ s_arg = <<>>
  /\ s_ret = <<>>

Init ==
  /\ \E ps \in ProverLists : BatchInitWith(ps)
  /\ CodecIdle
  /\ AddIdle
  /\ QueryIdle
  /\ IndexIdle
  /\ WitnessIdle
  /\ ClaimIdle
  /\ StepIdle

----------------------------------------------------------------------------
(* batch_prove *)

NVars(ps) == [i \in 1 .. Len(ps) |-> ps[i].n_vars]

ProversInOrder_NoRev(ps) == IsSortedAscending(NVars(ps))

ProversInOrder(ps) == IsSortedAscending(Reverse(NVars(ps)))

NRounds_Last(ps) == IF ps = <<>> THEN 0 ELSE NVars(ps)[Len(ps)]

NRounds(ps) == IterMax(NVars(ps))

\* where the round loop goes next
LoopHead(r, n) == IF r < n THEN "activate" ELSE "finish"

ReturnEmpty_Sampled ==
  /\ pc = "entry"
  /\ provers = <<>>
  /\ \E v \in SampleVals :
       log' = Append(log, Call("sample", 0, 0, <<>>, <<v>>))
  /\ pc' = "done"
  /\ result' = "ok"
  /\ output' = EmptyOutput
  /\ proof' = DefaultProof
  /\ UNCHANGED <<provers, n_rounds, round_no, active_index, batch_coeffs,
                 challenges, rounds, round_coeffs, idx, multilinear_evals, folded>>
  /\ UNCHANGED hvars

ReturnEmpty ==
  /\ pc = "entry"
  /\ provers = <<>>
  /\ pc' = "done"
  /\ result' = "ok"
  /\ output' = EmptyOutput
  /\ proof' = DefaultProof
  /\ UNCHANGED <<provers, n_rounds, round_no, active_index, batch_coeffs,
                 challenges, rounds, round_coeffs, idx, multilinear_evals, folded, log>>
  /\ UNCHANGED hvars

\* the batch coefficient of the first prover sampled before the check
RejectOutOfOrder_Sampled ==
  /\ pc = "entry"
  /\ provers # <<>>
  /\ ~ProversInOrder(provers)
  /\ pc' = "done"
  /\ result' = "ClaimsOutOfOrder"
  /\ \E v \in SampleVals : log' = Append(log, Call("sample", 1, 0, <<>>, v))
  /\ UNCHANGED <<provers, n_rounds, round_no, active_index, batch_coeffs,
                 challenges, rounds, round_coeffs, idx, multilinear_evals, folded,
                 output, proof>>
  /\ UNCHANGED hvars

RejectOutOfOrder ==
  /\ pc = "entry"
  /\ provers # <<>>
  /\ ~ProversInOrder(provers)
  /\ pc' = "done"
  /\ result' = "ClaimsOutOfOrder"
  /\ UNCHANGED <<provers, n_rounds, round_no, active_index, batch_coeffs,
                 challenges, rounds, round_coeffs, idx, multilinear_evals, folded, log,
                 output, proof>>
  /\ UNCHANGED hvars

Begin ==
  /\ pc = "entry"
  /\ provers # <<>>
  /\ ProversInOrder(provers)
  /\ n_rounds' = NRounds(provers)
  /\ pc' = LoopHead(0, NRounds(provers))
  /\ UNCHANGED <<provers, round_no, active_index, batch_coeffs, challenges,
                 rounds, round_coeffs, idx, multilinear_evals, folded, log, result,
                 output, proof>>
  /\ UNCHANGED hvars

\* the guard of the activation loop
NextIsDue ==
  /\ active_index < Len(provers)
  /\ provers[active_index + 1].n_vars = n_rounds - round_no

Activate ==
  /\ pc = "activate"
  /\ NextIsDue
  /\ \E next_batch_coeff \in SampleVals :
       /\ log' = Append(log, Call("sample", active_index + 1, round_no, <<>>,
                                  <<next_batch_coeff>>))
       /\ batch_coeffs' = Append(batch_coeffs, next_batch_coeff)
  /\ active_index' = active_index + 1
  /\ UNCHANGED <<provers, pc, n_rounds, round_no, challenges, rounds,
                 round_coeffs, idx, multilinear_evals, folded, result, output, proof>>
  /\ UNCHANGED hvars

ActivateDone ==
  /\ pc = "activate"
  /\ ~NextIsDue
  /\ pc' = "execute"
  /\ round_coeffs' = <<>>
  /\ idx' = 0
  /\ UNCHANGED <<provers, n_rounds, round_no, active_index, batch_coeffs,
                 challenges, rounds, multilinear_evals, folded, log, result, output,
                 proof>>
  /\ UNCHANGED hvars

\* number of pairs of iter::zip(batch_coeffs, provers[..active_index])
ExecuteCount ==
  IF Len(batch_coeffs) < active_index THEN Len(batch_coeffs) ELSE active_index

Execute ==
  /\ pc = "execute"
  /\ idx < ExecuteCount
  /\ LET batch_coeff == batch_coeffs[idx + 1]
         prover_coeffs == ExecuteRet(provers[idx + 1], folded[idx + 1],
                                     batch_coeff)
     IN
       /\ log' = Append(log, Call("execute", idx + 1, round_no,
                                  <<batch_coeff>>, prover_coeffs))
       /\ round_coeffs' = AddAssign(round_coeffs,
                                    MulAssign(prover_coeffs, batch_coeff))
  /\ idx' = idx + 1
  /\ UNCHANGED <<provers, pc, n_rounds, round_no, active_index, batch_coeffs,
                 challenges, rounds, multilinear_evals, folded, result, output, proof>>
  /\ UNCHANGED hvars

\* the error swallowed: the round goes on
Fail_Swallowed(op, p, arg) ==
  /\ log' = Append(log, Call(op, p, round_no, arg, <<>>))
  /\ pc' = IF pc = "finish" THEN "done" ELSE pc
  /\ result' = "ProverError"
  /\ UNCHANGED <<provers, n_rounds, round_no, active_index, batch_coeffs,
                 challenges, rounds, round_coeffs, idx, multilinear_evals, folded,
                 output, proof>>
  /\ UNCHANGED hvars

\* a prover call returns an error: batch_prove returns it
Fail(op, p, arg) ==
  /\ log' = Append(log, Call(op, p, round_no, arg, <<>>))
  /\ pc' = "done"
  /\ result' = "ProverError"
  /\ UNCHANGED <<provers, n_rounds, round_no, active_index, batch_coeffs,
                 challenges, rounds, round_coeffs, idx, multilinear_evals, folded,
                 output, proof>>
  /\ UNCHANGED hvars

ExecuteErr ==
  /\ pc = "execute"
  /\ idx < ExecuteCount
  /\ Fail("execute_err", idx + 1, <<batch_coeffs[idx + 1]>>)

ObserveRound_Unobserved ==
  /\ pc = "execute"
  /\ idx = ExecuteCount
  /\ LET round_proof == Truncate(round_coeffs) IN
       /\ rounds' = Append(rounds, round_proof)
       /\ log' = log
  /\ pc' = "challenge"
  /\ UNCHANGED <<provers, n_rounds, round_no, active_index, batch_coeffs,
                 challenges, round_coeffs, idx, multilinear_evals, folded, result,
                 output, proof>>
  /\ UNCHANGED hvars

ObserveRound ==
  /\ pc = "execute"
  /\ idx = ExecuteCount
  /\ LET round_proof == Truncate(round_coeffs) IN
       /\ log' = Append(log, Call("observe", 0, round_no, round_proof, <<>>))
       /\ rounds' = Append(rounds, round_proof)
  /\ pc' = "challenge"
  /\ UNCHANGED <<provers, n_rounds, round_no, active_index, batch_coeffs,
                 challenges, round_coeffs, idx, multilinear_evals, folded, result,
                 output, proof>>
  /\ UNCHANGED hvars

SampleChallenge ==
  /\ pc = "challenge"
  /\ \E challenge \in SampleVals :
       /\ log' = Append(log, Call("sample", 0, round_no, <<>>, <<challenge>>))
       /\ challenges' = Append(challenges, challenge)
  /\ pc' = "fold"
  /\ idx' = 0
  /\ UNCHANGED <<provers, n_rounds, round_no, active_index, batch_coeffs,
                 rounds, round_coeffs, multilinear_evals, folded, result, output, proof>>
  /\ UNCHANGED hvars

\* number of provers of provers[..active_index]
FoldCount_All == Len(provers)

FoldCount == active_index

\* the round's challenge, pushed last
Challenge_First == challenges[1]

Challenge == challenges[Len(challenges)]

Fold ==
  /\ pc = "fold"
  /\ idx < FoldCount
  /\ log' = Append(log, Call("fold", idx + 1, round_no, <<Challenge>>, <<>>))
  /\ folded' = [folded EXCEPT ![idx + 1] = Append(@, Challenge)]
  /\ idx' = idx + 1
  /\ UNCHANGED <<provers, pc, n_rounds, round_no, active_index, batch_coeffs,
                 challenges, rounds, round_coeffs, multilinear_evals, result,
                 output, proof>>
  /\ UNCHANGED hvars

FoldErr ==
  /\ pc = "fold"
  /\ idx < FoldCount
  /\ Fail("fold_err", idx + 1, <<Challenge>>)

EndRound ==
  /\ pc = "fold"
  /\ idx = FoldCount
  /\ round_no' = round_no + 1
  /\ pc' = LoopHead(round_no + 1, n_rounds)
  /\ idx' = 0
  /\ UNCHANGED <<provers, n_rounds, active_index, batch_coeffs, challenges,
                 rounds, round_coeffs, multilinear_evals, folded, log, result, output,
                 proof>>
  /\ UNCHANGED hvars

\* collect::<Result<Vec<_>, _>>() keeps the results in iteration order
Collect_Front(evals, e) == <<e>> \o evals

Collect(evals, e) == Append(evals, e)

Finish ==
  /\ pc = "finish"
  /\ idx < Len(provers)
  /\ LET evals == FinishRet(provers[idx + 1], folded[idx + 1]) IN
       /\ log' = Append(log, Call("finish", idx + 1, round_no, <<>>, evals))
       /\ multilinear_evals' = Collect(multilinear_evals, evals)
  /\ idx' = idx + 1
  /\ UNCHANGED <<provers, pc, n_rounds, round_no, active_index, batch_coeffs,
                 challenges, rounds, round_coeffs, folded, result, output,
                 proof>>
  /\ UNCHANGED hvars

FinishErr ==
  /\ pc = "finish"
  /\ idx < Len(provers)
  /\ Fail("finish_err", idx + 1, <<>>)

FinishDone ==
  /\ pc = "finish"
  /\ idx = Len(provers)
  /\ pc' = "observe_evals"
  /\ idx' = 0
  /\ UNCHANGED <<provers, n_rounds, round_no, active_index, batch_coeffs,
                 challenges, rounds, round_coeffs, multilinear_evals, folded, log,
                 result, output, proof>>
  /\ UNCHANGED hvars

ObserveEvals ==
  /\ pc = "observe_evals"
  /\ idx < Len(multilinear_evals)
  /\ log' = Append(log, Call("observe", 0, round_no,
                             multilinear_evals[idx + 1], <<>>))
  /\ idx' = idx + 1
  /\ UNCHANGED <<provers, pc, n_rounds, round_no, active_index, batch_coeffs,
                 challenges, rounds, round_coeffs, multilinear_evals, folded, result,
                 output, proof>>
  /\ UNCHANGED hvars

Return ==
  /\ pc = "observe_evals"
  /\ idx = Len(multilinear_evals)
  /\ output' = [challenges |-> challenges,
                multilinear_evals |-> multilinear_evals]
  /\ proof' = [rounds |-> rounds, multilinear_evals |-> multilinear_evals]
  /\ result' = "ok"
  /\ pc' = "done"
  /\ UNCHANGED <<provers, n_rounds, round_no, active_index, batch_coeffs,
                 challenges, rounds, round_coeffs, idx, multilinear_evals, folded, log>>
  /\ UNCHANGED hvars

Next ==
  \/ ReturnEmpty
  \/ RejectOutOfOrder
  \/ Begin
  \/ Activate
  \/ ActivateDone
  \/ Execute
  \/ ExecuteErr
  \/ ObserveRound
  \/ SampleChallenge
  \/ Fold
  \/ FoldErr
  \/ EndRound
  \/ Finish
  \/ FinishErr
  \/ FinishDone
  \/ ObserveEvals
  \/ Return

Spec == Init /\ [][Next]_vars

----------------------------------------------------------------------------
(* The codec harness: recover applied to any retained coefficients and sum *)

InitCodec ==
  /\ BatchInitWith(<<>>)
  /\ cpc = "input"
  /\ c_coeffs \in SeqsUpTo(F, MaxCoeffLen)
  /\ c_sum \in F
  /\ c_out = <<>>
  /\ AddIdle
  /\ QueryIdle
  /\ IndexIdle
  /\ WitnessIdle
  /\ ClaimIdle
  /\ StepIdle

DoRecover ==
  /\ cpc = "input"
  /\ c_out' = Recover(c_coeffs, c_sum)
  /\ cpc' = "recovered"
  /\ UNCHANGED <<c_coeffs, c_sum>>
  /\ UNCHANGED <<bvars, avars, qvars, ivars, wvars, kvars, svars>>

\* r(0) + r(1) of a round polynomial: r(0) = a_0, r(1) = sum of the a_j
RoundSum(coeffs) ==
  FAdd(IF coeffs = <<>> THEN 0 ELSE coeffs[1], IterSum(coeffs))

\* c.truncate().recover(s) with s = c(0) + c(1)
DoTruncateRecover ==
  /\ cpc = "input"
  /\ c_out' = Recover(Truncate(c_coeffs), RoundSum(c_coeffs))
  /\ cpc' = "roundtrip"
  /\ UNCHANGED <<c_coeffs, c_sum>>
  /\ UNCHANGED <<bvars, avars, qvars, ivars, wvars, kvars, svars>>

NextCodec ==
  \/ DoRecover
  \/ DoTruncateRecover

SpecCodec == InitCodec /\ [][NextCodec]_vars

----------------------------------------------------------------------------
(* The addition harness: RoundCoeffs added up, two by Add and three by     *)
(* AddAssign into RoundCoeffs::default() in any order                      *)

Add(self, rhs) == AddAssign(self, rhs)

\* the third list is drawn from fewer values
InitAdd ==
  /\ BatchInitWith(<<>>)
  /\ CodecIdle
  /\ apc = "input"
  /\ a_in \in {<<a, b, c>> : a \in SeqsUpTo(F, MaxCoeffLen),
                             b \in SeqsUpTo(F, MaxCoeffLen),
                             c \in SeqsUpTo({1, 2}, MaxCoeffLen)}
  /\ a_order = <<>>
  /\ a_out = <<>>
  /\ QueryIdle
  /\ IndexIdle
  /\ WitnessIdle
  /\ ClaimIdle
  /\ StepIdle

DoAdd ==
  /\ apc = "input"
  /\ a_out' = Add(a_in[1], a_in[2])
  /\ a_order' = <<1, 2>>
  /\ apc' = "added"
  /\ UNCHANGED a_in
  /\ UNCHANGED <<bvars, cvars, qvars, ivars, wvars, kvars, svars>>

Orders == {o \in [1 .. 3 -> 1 .. 3] : {o[1], o[2], o[3]} = 1 .. 3}

DoAccumulate ==
  /\ apc = "input"
  /\ \E o \in Orders :
       /\ a_order' = o
       /\ a_out' = AddAssign(AddAssign(AddAssign(<<>>, a_in[o[1]]), a_in[o[2]]),
                             a_in[o[3]])
  /\ apc' = "accumulated"
  /\ UNCHANGED a_in
  /\ UNCHANGED <<bvars, cvars, qvars, ivars, wvars, kvars, svars>>

NextAdd ==
  \/ DoAdd
  \/ DoAccumulate

SpecAdd == InitAdd /\ [][NextAdd]_vars

----------------------------------------------------------------------------
(* MultilinearQuery (multilinear_query.rs).  A packed element is the       *)
(* sequence of its P::WIDTH scalars; expanded_query is a sequence of       *)
(* packed elements.                                                        *)

MaxQueryVarsLimit == 31

Widths == {1, 2, 4}

Pow2(n) == 2 ^ n

Max2(a, b) == IF a > b THEN a ELSE b

PackedZero(W) == [h \in 1 .. W |-> 0]

SetSingle(W, x) == [PackedZero(W) EXCEPT ![1] = x]

PackedMul(x, r) == [h \in 1 .. Len(x) |-> FMul(x[h], r)]

PackedSub(x, y) == [h \in 1 .. Len(x) |-> FSub(x[h], y[h])]

\* one challenge r folded into the 2^k values of packed_values
FoldIn(packed_values, k, r, W) ==
  LET prev_length == Pow2(k) IN
  IF prev_length < W
  THEN LET q == packed_values[1] IN
       [packed_values EXCEPT ![1] =
          [h \in 1 .. W |->
             IF h <= prev_length THEN FSub(q[h], FMul(q[h], r))
             ELSE IF h <= 2 * prev_length THEN FMul(q[h - prev_length], r)
             ELSE q[h]]]
  ELSE LET prev_packed_length == prev_length \div W IN
       [i \in 1 .. Len(packed_values) |->
          IF i <= prev_packed_length
          THEN PackedSub(packed_values[i], PackedMul(packed_values[i], r))
          ELSE IF i <= 2 * prev_packed_length
          THEN PackedMul(packed_values[i - prev_packed_length], r)
          ELSE packed_values[i]]

RECURSIVE TensorProdEqInd(_, _, _, _)
TensorProdEqInd(log_n_values, packed_values, extra_query_coordinates, W) ==
  IF extra_query_coordinates = <<>> THEN packed_values
  ELSE TensorProdEqInd(log_n_values + 1,
                       FoldIn(packed_values, log_n_values,
                              extra_query_coordinates[1], W),
                       Tail(extra_query_coordinates), W)

Ok(v) == [ok |-> TRUE, val |-> v]
Err(e) == [ok |-> FALSE, val |-> e]

\* one packed element too many
QNew_Extra(W, max_query_vars) ==
  IF max_query_vars > MaxQueryVarsLimit THEN Err("TooManyVariables")
  ELSE LET len == Max2(Pow2(max_query_vars) \div W, 1) + 1 IN
       Ok([expanded_query |->
             [i \in 1 .. len |-> IF i = 1 THEN SetSingle(W, 1) ELSE PackedZero(W)],
           expanded_query_len |-> 1,
           n_vars |-> 0])

\* expanded_query[0] left zero
QNew_Unset(W, max_query_vars) ==
  IF max_query_vars > MaxQueryVarsLimit THEN Err("TooManyVariables")
  ELSE LET len == Max2(Pow2(max_query_vars) \div W, 1) IN
       Ok([expanded_query |-> [i \in 1 .. len |-> PackedZero(W)],
           expanded_query_len |-> 1,
           n_vars |-> 0])

QNew(W, max_query_vars) ==
  IF max_query_vars > MaxQueryVarsLimit THEN Err("TooManyVariables")
  ELSE LET len == Max2(Pow2(max_query_vars) \div W, 1) IN
       Ok([expanded_query |->
             [i \in 1 .. len |-> IF i = 1 THEN SetSingle(W, 1) ELSE PackedZero(W)],
           expanded_query_len |-> 1,
           n_vars |-> 0])

\* the whole buffer instead of its initialized part
Expansion_Whole(q) == q.expanded_query

Expansion(q) == SubSeq(q.expanded_query, 1, q.expanded_query_len)

\* the tensor product restarted from the empty query
QUpdate_FromZero(q, W, extra_query_coordinates) ==
  LET old_n_vars == q.n_vars
      new_n_vars == old_n_vars + Len(extra_query_coordinates)
      new_length == Max2(Pow2(new_n_vars) \div W, 1)
  IN  IF new_length > Len(q.expanded_query) THEN Err("MultilinearQueryFull")
      ELSE Ok([expanded_query |->
                 TensorProdEqInd(0, SubSeq(q.expanded_query, 1, new_length),
                                 extra_query_coordinates, W)
                   \o SubSeq(q.expanded_query, new_length + 1,
                             Len(q.expanded_query)),
               expanded_query_len |-> new_length,
               n_vars |-> new_n_vars])

QUpdate(q, W, extra_query_coordinates) ==
  LET old_n_vars == q.n_vars
      new_n_vars == old_n_vars + Len(extra_query_coordinates)
      new_length == Max2(Pow2(new_n_vars) \div W, 1)
  IN  IF new_length > Len(q.expanded_query) THEN Err("MultilinearQueryFull")
      ELSE Ok([expanded_query |->
                 TensorProdEqInd(old_n_vars,
                                 SubSeq(q.expanded_query, 1, new_length),
                                 extra_query_coordinates, W)
                   \o SubSeq(q.expanded_query, new_length + 1,
                             Len(q.expanded_query)),
               expanded_query_len |-> new_length,
               n_vars |-> new_n_vars])

WithFullQuery(W, full_query) ==
  LET made == QNew(W, Len(full_query)) IN
  IF made.ok THEN QUpdate(made.val, W, full_query) ELSE made

\* the challenge lists handed to update
ChallengeLists == SeqsUpTo(F, MaxExtra) \ {<<>>}

InitQuery ==
  /\ BatchInitWith(<<>>)
  /\ CodecIdle
  /\ AddIdle
  /\ qpc = "new"
  /\ q_width \in Widths
  /\ q_max \in (0 .. MaxQueryVars) \cup {MaxQueryVarsLimit + 1}
  /\ query = NoQuery
  /\ q_chal = <<>>
  /\ q_splits = <<>>
  /\ q_last = <<>>
  /\ IndexIdle
  /\ WitnessIdle
  /\ ClaimIdle
  /\ StepIdle

QueryNew ==
  /\ qpc = "new"
  /\ LET made == QNew(q_width, q_max) IN
       /\ qpc' = IF made.ok THEN "live" ELSE made.val
       /\ query' = IF made.ok THEN made.val ELSE NoQuery
  /\ UNCHANGED <<q_width, q_max, q_chal, q_splits, q_last>>
  /\ UNCHANGED <<bvars, cvars, avars, ivars, wvars, kvars, svars>>

\* with_full_query(full_query), max_query_vars being the length of the query
QueryWithFullQuery ==
  /\ qpc = "new"
  /\ q_max <= MaxQueryVars
  /\ \E full_query \in SeqsUpTo(F, MaxQueryVars) :
       /\ Len(full_query) = q_max
       /\ LET made == WithFullQuery(q_width, full_query) IN
            /\ qpc' = IF made.ok THEN "live" ELSE made.val
            /\ query' = IF made.ok THEN made.val ELSE NoQuery
       /\ q_chal' = full_query
       /\ q_splits' = <<Len(full_query)>>
       /\ q_last' = full_query
  /\ UNCHANGED <<q_width, q_max>>
  /\ UNCHANGED <<bvars, cvars, avars, ivars, wvars, kvars, svars>>

QueryUpdate ==
  /\ qpc = "live"
  /\ \E extra \in ChallengeLists :
       LET updated == QUpdate(query, q_width, extra) IN
         /\ updated.ok
         /\ query' = updated.val
         /\ q_chal' = q_chal \o extra
         /\ q_splits' = Append(q_splits, Len(extra))
         /\ q_last' = extra
  /\ UNCHANGED <<qpc, q_width, q_max>>
  /\ UNCHANGED <<bvars, cvars, avars, ivars, wvars, kvars, svars>>

\* update returns the error; `query` keeps the query the call was made on
QueryUpdateFull ==
  /\ qpc = "live"
  /\ \E extra \in ChallengeLists :
       LET updated == QUpdate(query, q_width, extra) IN
         /\ ~updated.ok
         /\ qpc' = updated.val
         /\ q_last' = extra
  /\ UNCHANGED <<q_width, q_max, query, q_chal, q_splits>>
  /\ UNCHANGED <<bvars, cvars, avars, ivars, wvars, kvars, svars>>

NextQuery ==
  \/ QueryNew
  \/ QueryWithFullQuery
  \/ QueryUpdate
  \/ QueryUpdateFull

SpecQuery == InitQuery /\ [][NextQuery]_vars

----------------------------------------------------------------------------
(* IndexComposition (composition/index.rs).  Positions are counted from 0  *)
(* as in the code; the k-th element of a sequence s is s[k + 1].           *)

\* identifiers compared by equality
Items == {"a", "b", "c"}

\* inner compositions: arity, degree and tower level
Compositions == [n_vars : 0 .. MaxInner, degree : {1, 2}, tower_level : {0, 1}]

RECURSIVE WeightedSum(_, _)
WeightedSum(q, i) ==
  IF i > Len(q) THEN 0
  ELSE FAdd(FMul(((i - 1) % 3) + 1, q[i]), WeightedSum(q, i + 1))

\* an inner composition whose value depends on the order of its arguments
CompositionEvaluate(composition, qry) ==
  IF Len(qry) # composition.n_vars
  THEN Err([kind |-> "IncorrectQuerySize", expected |-> composition.n_vars])
  ELSE Ok(WeightedSum(qry, 1))

IxNVars(self) == self.n_vars

IxDegree(self) == self.composition.degree

\* the subquery gathered in reverse order
IxEvaluate_Reversed(self, qry) ==
  IF Len(qry) # self.n_vars
  THEN Err([kind |-> "IncorrectQuerySize", expected |-> self.n_vars])
  ELSE LET subquery == [j \in 1 .. Len(self.indices) |->
                          qry[self.indices[Len(self.indices) + 1 - j] + 1]]
       IN  CompositionEvaluate(self.composition, subquery)

IxEvaluate(self, qry) ==
  IF Len(qry) # self.n_vars
  THEN Err([kind |-> "IncorrectQuerySize", expected |-> self.n_vars])
  ELSE LET subquery == [j \in 1 .. Len(self.indices) |->
                          qry[self.indices[j] + 1]]
       IN  CompositionEvaluate(self.composition, subquery)

IxBinaryTowerLevel(self) == self.composition.tower_level

\* the last matching position
Position_Last(superset, item) ==
  CHOOSE k \in 0 .. Len(superset) - 1 :
    /\ superset[k + 1] = item
    /\ \A l \in k + 1 .. Len(superset) - 1 : superset[l + 1] # item

\* Iterator::position: the first matching position
Position(superset, item) ==
  CHOOSE k \in 0 .. Len(superset) - 1 :
    /\ superset[k + 1] = item
    /\ \A l \in 0 .. k - 1 : superset[l + 1] # item

index_composition(superset, subset, composition) ==
  LET n_vars == Len(superset)
      proper_subset ==
        \A j \in 1 .. Len(subset) :
          \E k \in 1 .. Len(superset) : superset[k] = subset[j]
  IN  IF ~proper_subset THEN Err("MixedMultilinearNotFound")
      ELSE Ok([n_vars |-> n_vars,
               indices |-> [j \in 1 .. Len(subset) |->
                              Position(superset, subset[j])],
               composition |-> composition])

InitIndex ==
  /\ BatchInitWith(<<>>)
  /\ CodecIdle
  /\ AddIdle
  /\ QueryIdle
  /\ ipc = "input"
  /\ i_superset \in SeqsUpTo(Items, MaxOuter)
  /\ i_subset \in SeqsUpTo(Items, MaxInner)
  /\ i_composition \in Compositions
  /\ i_built = NoIndexComposition
  /\ i_query = <<>>
  /\ i_ret = <<>>
  /\ WitnessIdle
  /\ ClaimIdle
  /\ StepIdle

CallIndexComposition ==
  /\ ipc = "input"
  /\ LET made == index_composition(i_superset, i_subset, i_composition) IN
       /\ ipc' = IF made.ok THEN "built" ELSE made.val
       /\ i_built' = IF made.ok THEN made.val ELSE NoIndexComposition
  /\ UNCHANGED <<i_superset, i_subset, i_composition, i_query, i_ret>>
  /\ UNCHANGED <<bvars, cvars, avars, qvars, wvars, kvars, svars>>

CallEvaluate ==
  /\ ipc = "built"
  /\ \E qry \in SeqsUpTo(F, MaxOuter + 1) :
       /\ i_query' = qry
       /\ i_ret' = IxEvaluate(i_built, qry)
  /\ ipc' = "evaluated"
  /\ UNCHANGED <<i_superset, i_subset, i_composition, i_built>>
  /\ UNCHANGED <<bvars, cvars, avars, qvars, wvars, kvars, svars>>

NextIndex ==
  \/ CallIndexComposition
  \/ CallEvaluate

SpecIndex == InitIndex /\ [][NextIndex]_vars

----------------------------------------------------------------------------
(* MultilinearExtensionIndex (witness.rs).  An underlier is a 2-bit word:  *)
(* at tower level 0 it packs two 1-bit scalars, at tower level 1 one 2-bit *)
(* scalar.  Oracle ids are counted from 0; entry id is entries[id + 1].    *)

Some(x) == [some |-> TRUE, val |-> x]

\* FS::TOWER_LEVEL of the subfields the underlier can pack
Levels == {0, 1}

\* raw buffers: one underlier, two underliers, and three (not a power of two)
Buffers == {<<1>>, <<2, 3>>, <<1, 2, 3>>}

\* already type-erased witnesses
Handles == {"h1", "h2"}

OracleIds == 0 .. MaxId

\* number of (id, data) pairs of one update call
PairCounts == {1, 2}

FromUnderliersRef(level, underliers) ==
  [i \in 1 .. Len(underliers) |->
     IF level = 0 THEN <<underliers[i] % 2, underliers[i] \div 2>>
     ELSE <<underliers[i]>>]

ToUnderliersRef(level, packed) ==
  [i \in 1 .. Len(packed) |->
     IF level = 0 THEN packed[i][1] + 2 * packed[i][2] ELSE packed[i][1]]

IsPowerOfTwo(n) == \E k \in 0 .. n : Pow2(k) = n

FromValuesSlice(v) ==
  IF IsPowerOfTwo(Len(v)) THEN Ok([evals |-> v]) ELSE Err([kind |-> "Polynomial"])

\* a fresh vector in place of the grown one
ResizeWith_Fresh(es, id) ==
  IF id >= Len(es) THEN [i \in 1 .. id + 1 |-> None] ELSE es

ResizeWith(es, id) ==
  IF id >= Len(es) THEN es \o [i \in 1 .. id + 1 - Len(es) |-> None] ELSE es

\* the handle refused when there is no raw backing
GetMultilinPoly_NeedsBacking(es, id) ==
  IF id >= Len(es) \/ ~es[id + 1].some
  THEN Err([kind |-> "MissingWitness", id |-> id])
  ELSE IF ~es[id + 1].val.backing.some
  THEN Err([kind |-> "NoExplicitBackingMultilinearExtension", id |-> id])
  ELSE Ok(es[id + 1].val.type_erased)

GetMultilinPoly(es, id) ==
  IF id >= Len(es) \/ ~es[id + 1].some
  THEN Err([kind |-> "MissingWitness", id |-> id])
  ELSE Ok(es[id + 1].val.type_erased)

\* every slot in range counted as present
Has_InRange(es, id) == id < Len(es)

Has(es, id) == id < Len(es) /\ es[id + 1].some

\* the tower level check left out
Get_NoLevelCheck(es, level, id) ==
  IF id >= Len(es) \/ ~es[id + 1].some
  THEN Err([kind |-> "MissingWitness", id |-> id])
  ELSE LET entry == es[id + 1].val IN
       IF ~entry.backing.some
       THEN Err([kind |-> "NoExplicitBackingMultilinearExtension", id |-> id])
       ELSE LET backing == entry.backing.val IN
            FromValuesSlice(FromUnderliersRef(level, backing.underliers))

Get(es, level, id) ==
  IF id >= Len(es) \/ ~es[id + 1].some
  THEN Err([kind |-> "MissingWitness", id |-> id])
  ELSE LET entry == es[id + 1].val IN
       IF ~entry.backing.some
       THEN Err([kind |-> "NoExplicitBackingMultilinearExtension", id |-> id])
       ELSE LET backing == entry.backing.val IN
            IF backing.tower_level # level
            THEN Err([kind |-> "OracleTowerHeightMismatch", oracle_id |-> id,
                      oracle_level |-> backing.tower_level,
                      field_level |-> level])
            ELSE FromValuesSlice(FromUnderliersRef(level, backing.underliers))

BackedEntry(mle, witness, level, own) ==
  Some([type_erased |-> [mle |-> mle, level |-> level],
        backing |-> Some([underliers |-> witness, tower_level |-> level,
                          own |-> own])])

RECURSIVE UpdateOwned(_, _, _)
UpdateOwned(es, level, witnesses) ==
  IF witnesses = <<>> THEN Ok(es)
  ELSE LET id == witnesses[1][1]
           witness == witnesses[1][2]
           resized == ResizeWith(es, id)
           mle == FromValuesSlice(FromUnderliersRef(level, witness))
       IN  IF ~mle.ok THEN mle
           ELSE UpdateOwned(
                  [resized EXCEPT ![id + 1] =
                     BackedEntry(mle.val, witness, level, "Arc")],
                  level, Tail(witnesses))

RECURSIVE UpdateBorrowed(_, _, _)
UpdateBorrowed(es, level, witnesses) ==
  IF witnesses = <<>> THEN Ok(es)
  ELSE LET id == witnesses[1][1]
           witness == witnesses[1][2]
           resized == ResizeWith(es, id)
           mle == FromValuesSlice(FromUnderliersRef(level, witness))
       IN  IF ~mle.ok THEN mle
           ELSE UpdateBorrowed(
                  [resized EXCEPT ![id + 1] =
                     BackedEntry(mle.val, witness, level, "Ref")],
                  level, Tail(witnesses))

RECURSIVE UpdateMultilinPoly(_, _)
UpdateMultilinPoly(es, witnesses) ==
  IF witnesses = <<>> THEN Ok(es)
  ELSE LET id == witnesses[1][1]
           witness == witnesses[1][2]
           resized == ResizeWith(es, id)
       IN  UpdateMultilinPoly(
             [resized EXCEPT ![id + 1] =
                Some([type_erased |-> [handle |-> witness],
                      backing |-> None])],
             Tail(witnesses))

\* every packed value converted as if it held one scalar
UpdatePacked_OneScalar(es, level, witnesses) ==
  UpdateBorrowed(es, level,
                 [i \in 1 .. Len(witnesses) |->
                    <<witnesses[i][1], ToUnderliersRef(1, witnesses[i][2])>>])

UpdatePacked(es, level, witnesses) ==
  UpdateBorrowed(es, level,
                 [i \in 1 .. Len(witnesses) |->
                    <<witnesses[i][1], ToUnderliersRef(level, witnesses[i][2])>>])

\* the argument lists of the update calls
PairLists(Data) ==
  {ws \in SeqsUpTo(OracleIds \X Data, 2) : Len(ws) \in PairCounts}

PackedBuffers(level) == {FromUnderliersRef(level, b) : b \in Buffers}

\* ghost: what the pairs of a successful call registered, the last one winning
RECURSIVE Registered(_, _, _)
Registered(reg, level, witnesses) ==
  IF witnesses = <<>> THEN reg
  ELSE Registered([reg EXCEPT ![witnesses[1][1]] =
                     IF level \in Levels
                     THEN Some([level |-> level, values |-> witnesses[1][2]])
                     ELSE None],
                  level, Tail(witnesses))

\* ghost: the ids a call names
NamedIds(witnesses) == {witnesses[i][1] : i \in 1 .. Len(witnesses)}

\* ghost: the handle each id was last given by update_multilin_poly, dropped
\* when a raw update names the id
RECURSIVE Handled(_, _, _)
Handled(handles, level, witnesses) ==
  IF witnesses = <<>> THEN handles
  ELSE Handled([handles EXCEPT ![witnesses[1][1]] =
                  IF level \in Levels THEN None ELSE Some(witnesses[1][2])],
               level, Tail(witnesses))

\* ghost: ids in the order they were last named by a successful update
RECURSIVE Named(_, _)
Named(order, witnesses) ==
  IF witnesses = <<>> THEN order
  ELSE Named(Append(SelectSeq(order, LAMBDA x : x # witnesses[1][1]),
                    witnesses[1][1]),
             Tail(witnesses))

InitWitness ==
  /\ BatchInitWith(<<>>)
  /\ CodecIdle
  /\ AddIdle
  /\ QueryIdle
  /\ IndexIdle
  /\ ClaimIdle
  /\ StepIdle
  /\ wpc = "live"
  /\ entries = <<>>
  /\ w_got = None
  /\ w_reg = [id \in OracleIds |-> None]
  /\ w_order = <<>>
  /\ w_track = "registrations"
  /\ w_named = {}
  /\ w_handle = [id \in OracleIds |-> None]

\* the outcome of an update call; a failed call has consumed the index
UpdateOutcome(updated, level, packed_witnesses) ==
  \E ok \in {updated.ok} :
    /\ wpc' = IF ok THEN "live" ELSE updated.val.kind
    /\ entries' = IF ok THEN updated.val ELSE <<>>
    /\ w_reg' = IF ok /\ w_track = "registrations"
                THEN Registered(w_reg, level, packed_witnesses)
                ELSE w_reg
    /\ w_order' = IF ok /\ w_track = "registrations"
                  THEN Named(w_order, packed_witnesses)
                  ELSE w_order
    /\ w_named' = IF ok /\ w_track = "frame"
                  THEN NamedIds(packed_witnesses)
                  ELSE w_named
    /\ w_handle' = IF ok /\ w_track = "frame"
                   THEN Handled(w_handle, level, packed_witnesses)
                   ELSE w_handle
    /\ UNCHANGED w_track
    /\ w_got' = None
    /\ UNCHANGED <<bvars, cvars, avars, qvars, ivars, kvars, svars>>

CallUpdateOwned ==
  /\ wpc = "live"
  /\ w_got = None
  /\ \E level \in Levels : \E witnesses \in PairLists(Buffers) :
       UpdateOutcome(UpdateOwned(entries, level, witnesses), level,
                     [i \in 1 .. Len(witnesses) |->
                        <<witnesses[i][1],
                          FromUnderliersRef(level, witnesses[i][2])>>])

CallUpdateBorrowed ==
  /\ wpc = "live"
  /\ w_got = None
  /\ \E level \in Levels : \E witnesses \in PairLists(Buffers) :
       UpdateOutcome(UpdateBorrowed(entries, level, witnesses), level,
                     [i \in 1 .. Len(witnesses) |->
                        <<witnesses[i][1],
                          FromUnderliersRef(level, witnesses[i][2])>>])

CallUpdatePacked ==
  /\ wpc = "live"
  /\ w_got = None
  /\ \E level \in Levels : \E witnesses \in PairLists(PackedBuffers(level)) :
       UpdateOutcome(UpdatePacked(entries, level, witnesses), level, witnesses)

CallUpdateMultilinPoly ==
  /\ wpc = "live"
  /\ w_got = None
  /\ \E witnesses \in PairLists(Handles) :
       UpdateOutcome(UpdateMultilinPoly(entries, witnesses), -1, witnesses)

CallGet ==
  /\ wpc = "live"
  /\ \E level \in Levels : \E id \in 0 .. MaxId + 1 :
       w_got' = Some([id |-> id, level |-> level, before |-> entries,
                      ret |-> Get(entries, level, id)])
  /\ UNCHANGED <<wpc, entries, w_reg, w_order, w_track, w_named, w_handle>>
  /\ UNCHANGED <<bvars, cvars, avars, qvars, ivars, kvars, svars>>

\* the value get returned borrows the index: it is dropped before the index
\* can be moved into update_owned, update_borrowed or update_packed or
\* borrowed mutably by update_multilin_poly
DropBorrowed ==
  /\ wpc = "live"
  /\ w_got # None
  /\ w_got' = None
  /\ UNCHANGED <<wpc, entries, w_reg, w_order, w_track, w_named, w_handle>>
  /\ UNCHANGED <<bvars, cvars, avars, qvars, ivars, kvars, svars>>

NextWitness ==
  \/ CallUpdateOwned
  \/ CallUpdateBorrowed
  \/ CallUpdatePacked
  \/ CallUpdateMultilinPoly
  \/ CallGet
  \/ DropBorrowed

SpecWitness == InitWitness /\ [][NextWitness]_vars

\* the same index, recording what each update named instead of what each
\* identifier was registered with
InitFrame ==
  /\ BatchInitWith(<<>>)
  /\ CodecIdle
  /\ AddIdle
  /\ QueryIdle
  /\ IndexIdle
  /\ ClaimIdle
  /\ StepIdle
  /\ wpc = "live"
  /\ entries = <<>>
  /\ w_got = None
  /\ w_reg = [id \in OracleIds |-> None]
  /\ w_order = <<>>
  /\ w_track = "frame"
  /\ w_named = {}
  /\ w_handle = [id \in OracleIds |-> None]

SpecFrame == InitFrame /\ [][NextWitness]_vars

----------------------------------------------------------------------------
(* SumcheckClaim (common.rs) *)

\* the claimed sums of the composite claims
SumVals == {0, 1}

CompositeSumClaims == [composition : Compositions, sum : SumVals]

\* only the first composition compared
SumcheckClaimNew_FirstOnly(n_vars, n_multilinears, composite_sums) ==
  IF composite_sums # <<>>
     /\ composite_sums[1].composition.n_vars # n_multilinears
  THEN Err([kind |-> "InvalidComposition", expected_n_vars |-> n_multilinears])
  ELSE Ok([n_vars |-> n_vars, n_multilinears |-> n_multilinears,
           composite_sums |-> composite_sums])

SumcheckClaimNew(n_vars, n_multilinears, composite_sums) ==
  IF \E i \in 1 .. Len(composite_sums) :
       composite_sums[i].composition.n_vars # n_multilinears
  THEN Err([kind |-> "InvalidComposition", expected_n_vars |-> n_multilinears])
  ELSE Ok([n_vars |-> n_vars, n_multilinears |-> n_multilinears,
           composite_sums |-> composite_sums])

MaxIndividualDegree(self) ==
  IterMax([i \in 1 .. Len(self.composite_sums) |->
             self.composite_sums[i].composition.n_vars])

InitClaim ==
  /\ BatchInitWith(<<>>)
  /\ CodecIdle
  /\ AddIdle
  /\ QueryIdle
  /\ IndexIdle
  /\ WitnessIdle
  /\ StepIdle
  /\ kpc = "input"
  /\ k_n_vars \in 0 .. MaxVars
  /\ k_n_multilinears \in 0 .. MaxInner
  /\ k_composite_sums \in SeqsUpTo(CompositeSumClaims, MaxSums)
  /\ k_claim = NoClaim
  /\ k_ret = 0

CallSumcheckClaimNew ==
  /\ kpc = "input"
  /\ LET made == SumcheckClaimNew(k_n_vars, k_n_multilinears, k_composite_sums)
     IN  /\ kpc' = IF made.ok THEN "built" ELSE made.val.kind
         /\ k_claim' = IF made.ok THEN made.val ELSE NoClaim
  /\ UNCHANGED <<k_n_vars, k_n_multilinears, k_composite_sums, k_ret>>
  /\ UNCHANGED <<bvars, cvars, avars, qvars, ivars, wvars, svars>>

CallMaxIndividualDegree ==
  /\ kpc = "built"
  /\ k_ret' = MaxIndividualDegree(k_claim)
  /\ kpc' = "measured"
  /\ UNCHANGED <<k_n_vars, k_n_multilinears, k_composite_sums, k_claim>>
  /\ UNCHANGED <<bvars, cvars, avars, qvars, ivars, wvars, svars>>

NextClaim ==
  \/ CallSumcheckClaimNew
  \/ CallMaxIndividualDegree

SpecClaim == InitClaim /\ [][NextClaim]_vars

----------------------------------------------------------------------------
(* StepDown (transparent/step_down.rs).  A query lists the coordinates    *)
(* from the least significant bit of the hypercube index.                  *)

\* P::LOG_WIDTH of the packed fields over BinaryField1b
LogWidths == {0, 1, 2}

\* index >= 1 not required
StepDownNew_ZeroAllowed(n_vars, index) ==
  IF index >= Pow2(n_vars)
  THEN Err([kind |-> "ArgumentRangeError", arg |-> "index",
            range |-> <<1, Pow2(n_vars)>>])
  ELSE Ok([n_vars |-> n_vars, index |-> index])

StepDownNew(n_vars, index) ==
  IF index < 1 \/ index >= Pow2(n_vars)
  THEN Err([kind |-> "ArgumentRangeError", arg |-> "index",
            range |-> <<1, Pow2(n_vars)>>])
  ELSE Ok([n_vars |-> n_vars, index |-> index])

StepDownMultilinearExtension(self, log_width) ==
  IF self.n_vars < log_width
  THEN Err([kind |-> "PackedFieldNotFilled", length |-> Pow2(self.n_vars),
            packed_width |-> Pow2(log_width)])
  ELSE LET W == Pow2(log_width)
           log_packed_length == self.n_vars - log_width
           packed_index == self.index \div W
           values ==
             [i \in 1 .. Pow2(log_packed_length) |->
                IF i - 1 < packed_index THEN [h \in 1 .. W |-> 1]
                ELSE IF i - 1 = packed_index
                THEN [h \in 1 .. W |-> IF h - 1 < self.index % W THEN 1 ELSE 0]
                ELSE PackedZero(W)]
       IN  FromValuesSlice(values)

StepDownDegree(self) == self.n_vars

StepDownNVars(self) == self.n_vars

\* the loop of evaluate over the coordinates qry[i ..], k being the index
\* shifted right by i - 1
RECURSIVE StepUpFrom(_, _, _, _)
StepUpFrom(qry, i, k, acc) ==
  IF i > Len(qry) THEN acc
  ELSE StepUpFrom(qry, i + 1, k \div 2,
                  IF k % 2 = 1 THEN FMul(acc, qry[i])
                  ELSE FAdd(FMul(acc, FSub(1, qry[i])), qry[i]))

StepDownEvaluate(self, qry) ==
  LET n_vars == StepDownNVars(self) IN
  IF Len(qry) # n_vars
  THEN Err([kind |-> "IncorrectQuerySize", expected |-> n_vars])
  ELSE Ok(FSub(1, StepUpFrom(qry, 1, self.index, 1)))

StepDownBinaryTowerLevel(self) == 0

InitStep ==
  /\ BatchInitWith(<<>>)
  /\ CodecIdle
  /\ AddIdle
  /\ QueryIdle
  /\ IndexIdle
  /\ WitnessIdle
  /\ ClaimIdle
  /\ spc = "input"
  /\ s_n_vars \in 0 .. MaxStepVars
  /\ s_index \in 0 .. Pow2(MaxStepVars) + 1
  /\ s_self = NoStepDown
  /\ s_arg = <<>>
  /\ s_ret = <<>>

CallStepDownNew ==
  /\ spc = "input"
  /\ LET made == StepDownNew(s_n_vars, s_index) IN
       /\ spc' = IF made.ok THEN "built" ELSE made.val.kind
       /\ s_self' = IF made.ok THEN made.val ELSE NoStepDown
  /\ UNCHANGED <<s_n_vars, s_index, s_arg, s_ret>>
  /\ UNCHANGED <<bvars, cvars, avars, qvars, ivars, wvars, kvars>>

CallStepDownEvaluate ==
  /\ spc = "built"
  /\ \E qry \in SeqsUpTo(F, MaxStepVars) :
       /\ s_arg' = qry
       /\ s_ret' = StepDownEvaluate(s_self, qry)
  /\ spc' = "evaluated"
  /\ UNCHANGED <<s_n_vars, s_index, s_self>>
  /\ UNCHANGED <<bvars, cvars, avars, qvars, ivars, wvars, kvars>>

CallStepDownMultilinearExtension ==
  /\ spc = "built"
  /\ \E log_width \in LogWidths :
       /\ s_arg' = <<log_width>>
       /\ s_ret' = StepDownMultilinearExtension(s_self, log_width)
  /\ spc' = "extended"
  /\ UNCHANGED <<s_n_vars, s_index, s_self>>
  /\ UNCHANGED <<bvars, cvars, avars, qvars, ivars, wvars, kvars>>

NextStep ==
  \/ CallStepDownNew
  \/ CallStepDownEvaluate
  \/ CallStepDownMultilinearExtension

SpecStep == InitStep /\ [][NextStep]_vars

----------------------------------------------------------------------------
(* Vocabulary of the properties *)

Indices(s) == 1 .. Len(s)

IsPrefix(s, t) == Len(s) <= Len(t) /\ \A i \in Indices(s) : s[i] = t[i]

\* largest n_vars of the list, 0 for the empty list
MaxOf(ps) == CHOOSE m \in {ps[i] : i \in Indices(ps)} \cup {0} :
               \A i \in Indices(ps) : ps[i] <= m

Unsorted(ps) == \E i \in 1 .. Len(ps) - 1 : ps[i] < ps[i + 1]

\* n_vars of the provers of the input, in input order
Arities == [j \in Indices(provers) |-> provers[j].n_vars]

IsProverOp(e) == e.op \in {"execute", "fold", "finish"}
IsTranscriptOp(e) == e.op \in {"sample", "observe"}

\* the calls made on prover j, in order
ProverCalls(j) == SelectSeq(log, LAMBDA e : e.p = j /\ IsProverOp(e))
Ops(calls) == [i \in Indices(calls) |-> calls[i].op]

\* the calls made on the transcript, in order
Transcript == SelectSeq(log, IsTranscriptOp)

\* execute, fold, ... (n pairs), finish
RequiredOps(n) ==
  [i \in 1 .. 2 * n + 1 |->
     IF i = 2 * n + 1 THEN "finish" ELSE IF i % 2 = 1 THEN "execute" ELSE "fold"]

\* the batch coefficients sampled for prover j
ActivationsOf(j) == SelectSeq(log, LAMBDA e : e.op = "sample" /\ e.p = j)

\* positions of the log holding a call of the given kind in round r
PositionsOf(op, r) == {i \in Indices(log) : log[i].op = op /\ log[i].round = r}

\* evaluation of a coefficient list at x (Horner)
RECURSIVE PolyEval(_, _)
PolyEval(p, x) ==
  IF p = <<>> THEN 0 ELSE FAdd(p[1], FMul(x, PolyEval(Tail(p), x)))

----------------------------------------------------------------------------
\* C1: on a non-empty list, batch_prove returns ClaimsOutOfOrder if and only
\* if some prover is followed by a prover with a strictly larger n_vars;
\* lists whose neighbours have equal n_vars are accepted.
C1_OutOfOrderIffUnsorted ==
  (provers # <<>> /\ pc # "entry") =>
    ((result = "ClaimsOutOfOrder") <=> Unsorted(Arities))

C1_Witness ==
  /\ result = "ClaimsOutOfOrder"
  /\ Len(provers) = 2
  /\ Arities[1] < Arities[2]

\* C2: as long as no prover returned an error, the calls made on a prover
\* with n_vars = n are a prefix of execute, fold, ... (n pairs), finish, each
\* fold directly following the execute of the same round, and a successful
\* run has made exactly that sequence.
C2_CallSequence ==
  result # "ProverError" =>
    \A j \in Indices(provers) :
      LET calls == ProverCalls(j) IN
        /\ IsPrefix(Ops(calls), RequiredOps(Arities[j]))
        /\ \A i \in Indices(calls) :
             calls[i].op = "fold" => calls[i - 1].round = calls[i].round
        /\ result = "ok" => Ops(calls) = RequiredOps(Arities[j])

C2_Witness ==
  /\ result = "ok"
  /\ Arities = <<2, 1>>
  /\ Ops(ProverCalls(2)) = <<"execute", "fold", "finish">>

\* C3: in a successful run on a non-empty sorted input every prover, of any
\* arity n_vars >= 0, is activated exactly once (one batch coefficient is
\* sampled for it), in the round whose descending counter
\* n_rounds - round_no equals its n_vars, and in input order.
C3_ActivatedExactlyOnce ==
  (result = "ok" /\ provers # <<>>) =>
    /\ \A j \in Indices(provers) :
         /\ Len(ActivationsOf(j)) = 1
         /\ MaxOf(Arities) - ActivationsOf(j)[1].round = Arities[j]
    /\ LET samples == SelectSeq(log, LAMBDA e : e.op = "sample" /\ e.p # 0)
       IN  \A i \in Indices(samples) : samples[i].p = i

\* C4: a successful run executes exactly max(n_vars) rounds: the proof holds
\* that many round proofs and the output that many challenges.
C4_RoundCount ==
  result = "ok" =>
    /\ Len(proof.rounds) = MaxOf(Arities)
    /\ Len(output.challenges) = MaxOf(Arities)
    /\ round_no = MaxOf(Arities)

C4_Witness ==
  /\ result = "ok"
  /\ Arities = <<2, 1>>
  /\ Len(proof.rounds) = 2
  /\ Len(output.challenges) = 2

\* C5: the transcript calls of a successful run are, in this order and with
\* no other call: for each round, one sample per prover activated in that
\* round (in input order, before any execute of the round), one observe of
\* the round's truncated coefficients, one sample of the round challenge
\* (before any fold of the round); after the last round, one observe per
\* prover of its evaluation vector, in input order.
ActivatedIn(ps, r) ==
  SelectSeq([j \in Indices(ps) |-> j], LAMBDA j : ps[j] = MaxOf(ps) - r)

RoundTranscript(ps, r) ==
  [i \in Indices(ActivatedIn(ps, r)) |-> <<"sample", ActivatedIn(ps, r)[i]>>]
    \o <<(<<"observe", 0>>), (<<"sample", 0>>)>>

RECURSIVE RoundsTranscript(_, _)
RoundsTranscript(ps, n) ==
  IF n = 0 THEN <<>>
  ELSE RoundsTranscript(ps, n - 1) \o RoundTranscript(ps, n - 1)

ExpectedTranscript(ps) ==
  RoundsTranscript(ps, MaxOf(ps)) \o [j \in Indices(ps) |-> <<"observe", 0>>]

C5_TranscriptOrder ==
  result = "ok" =>
    LET t == Transcript
        n == MaxOf(Arities)
        head == Len(RoundsTranscript(Arities, n))
    IN  /\ [i \in Indices(t) |-> <<t[i].op, t[i].p>>] = ExpectedTranscript(Arities)
        /\ \A r \in 0 .. n - 1 :
             \E o \in PositionsOf("observe", r), c \in PositionsOf("sample", r) :
               /\ log[c].p = 0
               /\ o < c
               /\ log[o].arg = proof.rounds[r + 1]
               /\ log[c].ret = <<output.challenges[r + 1]>>
               /\ \A s \in PositionsOf("sample", r) : s # c => s < o
               /\ \A x \in PositionsOf("execute", r) :
                    /\ x < o
                    /\ \A s \in PositionsOf("sample", r) : s # c => s < x
               /\ \A f \in PositionsOf("fold", r) : c < f
        /\ \A j \in Indices(provers) :
             t[head + j].arg = output.multilinear_evals[j]

C5_Witness ==
  /\ result = "ok"
  /\ Arities = <<2, 1>>
  /\ Len(Transcript) = 8

\* C6: in every round the round proof appended to the proof is the
\* zero-extended sum, over exactly the provers active in that round, of
\* c_j * execute_j(c_j) with its last coefficient removed, c_j being the
\* batch coefficient sampled when prover j was activated.  Stated of every
\* round proof when it has just been appended, and of all of them on return.
ActiveIn(ps, r) == {j \in Indices(ps) : ps[j] >= MaxOf(ps) - r /\ ps[j] >= 1}

ExecutesOf(r) == SelectSeq(log, LAMBDA e : e.op = "execute" /\ e.round = r)

RECURSIVE ScaledCoeffSum(_, _)
\* the i-th coefficient of the sum of c_j * ret_j over the execute calls es
ScaledCoeffSum(es, i) ==
  IF es = <<>> THEN 0
  ELSE LET e == es[1]
           c == ActivationsOf(e.p)[1].ret[1]
           term == IF i <= Len(e.ret) THEN FMul(c, e.ret[i]) ELSE 0
       IN  FAdd(term, ScaledCoeffSum(Tail(es), i))

ExpectedRoundCoeffs(r) ==
  LET es == ExecutesOf(r)
      len == MaxOf([i \in Indices(es) |-> Len(es[i].ret)])
  IN  [i \in 1 .. len |-> ScaledCoeffSum(es, i)]

DropLast(s) == IF s = <<>> THEN <<>> ELSE [i \in 1 .. Len(s) - 1 |-> s[i]]

RoundMessageOK(r, round_proof) ==
  LET es == ExecutesOf(r) IN
    /\ {es[i].p : i \in Indices(es)} = ActiveIn(Arities, r)
    /\ Len(es) = Cardinality(ActiveIn(Arities, r))
    /\ \A i \in Indices(es) :
         /\ Len(ActivationsOf(es[i].p)) = 1
         /\ es[i].arg = ActivationsOf(es[i].p)[1].ret
    /\ round_proof = DropLast(ExpectedRoundCoeffs(r))

C6_RoundMessage ==
  /\ pc = "challenge" => RoundMessageOK(round_no, rounds[round_no + 1])
  /\ result = "ok" =>
       \A r \in 0 .. Len(proof.rounds) - 1 : RoundMessageOK(r, proof.rounds[r + 1])

C6_Witness ==
  /\ Arities = <<2, 1>>
  /\ Len(rounds) = 2
  /\ Len(rounds[2]) >= 1
  /\ Len(ExecutesOf(1)) = 2
  /\ Len(ExecutesOf(1)[1].ret) # Len(ExecutesOf(1)[2].ret)

\* C7: in round i every active prover is folded with one and the same value,
\* the challenge sampled in round i after the round's proof was observed,
\* which is output.challenges[i]; a prover not yet active in round i is not
\* folded in round i, so a prover of arity n is folded with exactly the last
\* n challenges of the output, in order.  Stated of every fold when it has
\* just been made, and of each prover's folds on return.
FoldsOf(j) == SelectSeq(log, LAMBDA e : e.op = "fold" /\ e.p = j)

LastN(s, n) == [i \in 1 .. n |-> s[Len(s) - n + i]]

C7_FoldChallenge ==
  /\ \A f \in {Len(log)} \ {0} :
       log[f].op = "fold" =>
         /\ log[f].p \in ActiveIn(Arities, log[f].round)
         /\ \E c \in PositionsOf("sample", log[f].round) :
              /\ log[c].p = 0
              /\ c < f
              /\ \E o \in PositionsOf("observe", log[f].round) : o < c
              /\ log[f].arg = log[c].ret
              /\ log[f].arg = <<challenges[log[f].round + 1]>>
  /\ result = "ok" =>
       /\ output.challenges = challenges
       /\ \A j \in Indices(provers) :
            [i \in Indices(FoldsOf(j)) |-> FoldsOf(j)[i].arg[1]]
              = LastN(output.challenges, Arities[j])

C7_Witness ==
  /\ result = "ok"
  /\ Arities = <<2, 1>>
  /\ output.challenges[1] # output.challenges[2]
  /\ Len(FoldsOf(2)) = 1

\* C8: a successful run returns one evaluation vector per input prover, in
\* input order, the i-th being what finish() of the i-th prover returned;
\* the proof and the output hold the same vectors, and each of them is
\* observed into the transcript after all rounds.
FinishOf(j) == SelectSeq(log, LAMBDA e : e.op = "finish" /\ e.p = j)

C8_Evaluations ==
  result = "ok" =>
    /\ Len(output.multilinear_evals) = Len(provers)
    /\ proof.multilinear_evals = output.multilinear_evals
    /\ \A j \in Indices(provers) :
         /\ Len(FinishOf(j)) = 1
         /\ output.multilinear_evals[j] = FinishOf(j)[1].ret
         /\ LET k == Len(log) - Len(provers) + j IN
              /\ log[k].op = "observe"
              /\ log[k].arg = output.multilinear_evals[j]
              /\ \A i \in Indices(log) :
                   (log[i].op \in {"execute", "fold", "sample", "finish"}) => i < k

C8_Witness ==
  /\ result = "ok"
  /\ Len(provers) = 2
  /\ output.multilinear_evals[1] # output.multilinear_evals[2]

\* C9: on an empty list batch_prove returns success with an empty output and
\* a default proof and makes no call on the transcript.
C9_EmptyInput ==
  (provers = <<>> /\ pc = "done") =>
    /\ result = "ok"
    /\ output = [challenges |-> <<>>, multilinear_evals |-> <<>>]
    /\ proof = [rounds |-> <<>>, multilinear_evals |-> <<>>]
    /\ Transcript = <<>>
    /\ log = <<>>

C9_Witness ==
  /\ provers = <<>>
  /\ pc = "done"
  /\ result = "ok"

\* C10 (as stated): for any retained coefficients, of any length including
\* zero, and any sum s, recover(s) returns a list p with p(0) + p(1) = s.
C10_RecoverIdentityAnyLength ==
  cpc = "recovered" =>
    FAdd(PolyEval(c_out, 0), PolyEval(c_out, 1)) = c_sum

\* C10 (amended): recover(s) never fails and appends one coefficient; with
\* at least one retained coefficient the result p satisfies p(0) + p(1) = s;
\* with none it is the constant s, for which p(0) + p(1) = 0.
C10_RecoverIdentity ==
  cpc = "recovered" =>
    /\ Len(c_out) = Len(c_coeffs) + 1
    /\ IsPrefix(c_coeffs, c_out)
    /\ Len(c_coeffs) >= 1 =>
         FAdd(PolyEval(c_out, 0), PolyEval(c_out, 1)) = c_sum
    /\ Len(c_coeffs) = 0 =>
         /\ c_out = <<c_sum>>
         /\ FAdd(PolyEval(c_out, 0), PolyEval(c_out, 1)) = 0

C10_Witness ==
  /\ cpc = "recovered"
  /\ Len(c_coeffs) = 2
  /\ c_coeffs[1] # 0
  /\ c_sum # 0

CoeffAt(l, i) == IF i <= Len(l) THEN l[i] ELSE 0

LongestOf(ls) == CHOOSE n \in {Len(ls[k]) : k \in Indices(ls)} :
                   \A k \in Indices(ls) : Len(ls[k]) <= n

\* C11: RoundCoeffs addition is total and zero-extends the shorter operand:
\* a + b has length max(len a, len b), its i-th coefficient is a_i + b_i with
\* missing coefficients taken as zero, a + b = b + a, and accumulating
\* several lists gives the same result in any order.
C11_AddZeroExtends ==
  /\ apc = "added" =>
       LET a == a_in[1]
           b == a_in[2]
       IN  /\ Len(a_out) = LongestOf(<<a, b>>)
           /\ \A i \in Indices(a_out) : a_out[i] = FAdd(CoeffAt(a, i), CoeffAt(b, i))
           /\ Add(b, a) = a_out
  /\ apc = "accumulated" =>
       /\ Len(a_out) = LongestOf(a_in)
       /\ \A i \in Indices(a_out) :
            a_out[i] = FAdd(FAdd(CoeffAt(a_in[1], i), CoeffAt(a_in[2], i)),
                            CoeffAt(a_in[3], i))

C11_Witness ==
  /\ apc = "accumulated"
  /\ a_order = <<3, 1, 2>>
  /\ Len(a_in[3]) < Len(a_in[1])
  /\ Len(a_in[1]) < Len(a_in[2])
  /\ a_out[1] # 0

----------------------------------------------------------------------------
\* scalar slots the buffer of new(q_max) holds at packing width q_width
Capacity == Max2(Pow2(q_max), q_width)

\* C12 as stated: no update that brings the number of folded challenges
\* above the declared max_vars succeeds, at any packing width.
C12_FullAboveMax ==
  qpc = "live" => query.n_vars <= q_max

\* C12: an update fails with MultilinearQueryFull exactly when the 2^n
\* scalars of the new total would not fit the buffer allocated by new, which
\* holds max(2^max_vars, WIDTH) scalar slots; the buffer never changes size
\* and no challenge is dropped.  When 2^max_vars >= WIDTH this is: more
\* than max_vars challenges in total.
C12_FullAboveCapacity ==
  /\ qpc = "live" =>
       /\ Pow2(query.n_vars) <= Capacity
       /\ Len(query.expanded_query) * q_width = Capacity
       /\ query.n_vars = Len(q_chal)
       /\ Pow2(q_max) >= q_width => query.n_vars <= q_max
  /\ qpc = "MultilinearQueryFull" =>
       /\ Pow2(query.n_vars + Len(q_last)) > Capacity
       /\ query.n_vars + Len(q_last) > q_max

C12_Witness ==
  /\ qpc = "MultilinearQueryFull"
  /\ q_width = 4
  /\ q_max = 0
  /\ query.n_vars = 2
  /\ q_splits = <<1, 1>>

Bit(p, i) == (p \div Pow2(i)) % 2

RECURSIVE FProduct(_)
FProduct(s) == IF s = <<>> THEN 1 ELSE FMul(s[1], FProduct(Tail(s)))

\* the product over i of (r_i if bit i of p is 1, else 1 - r_i)
TensorAt(r, p) ==
  FProduct([i \in 1 .. Len(r) |->
              IF Bit(p, i - 1) = 1 THEN r[i] ELSE FSub(1, r[i])])

ScalarAt(units, p, W) == units[(p \div W) + 1][(p % W) + 1]

\* C13: after challenges r_0..r_{n-1} are folded in, the scalar at position
\* p < 2^n of expansion() is the product over i of (r_i if bit i of p is 1,
\* else 1 - r_i), whatever the packing width; the empty query gives the
\* single value one; the scalar slots beyond 2^n of the packed unit are zero.
C13_TensorExpansion ==
  qpc = "live" =>
    LET e == Expansion(query)
        n == Len(q_chal)
    IN  /\ Len(e) * q_width >= Pow2(n)
        /\ \A p \in 0 .. Len(e) * q_width - 1 :
             ScalarAt(e, p, q_width) =
               IF p < Pow2(n) THEN TensorAt(q_chal, p) ELSE 0

C13_Witness ==
  /\ qpc = "live"
  /\ q_width = 4
  /\ q_chal = <<2>>
  /\ Expansion(query) = << <<3, 2, 0, 0>> >>

\* C14: however the list of challenges is split into consecutive update
\* calls, n_vars and expansion() are those of one update call with the
\* whole list on a fresh query, and those of with_full_query.
C14_SplitIndependent ==
  qpc = "live" =>
    LET one == QUpdate(QNew(q_width, q_max).val, q_width, q_chal)
        full == WithFullQuery(q_width, q_chal)
    IN  /\ one.ok
        /\ one.val.n_vars = query.n_vars
        /\ Expansion(one.val) = Expansion(query)
        /\ full.ok
        /\ full.val.n_vars = query.n_vars
        /\ Expansion(full.val) = Expansion(query)

C14_Witness ==
  /\ qpc = "live"
  /\ q_width = 2
  /\ q_splits = <<1, 1, 1>>
  /\ q_chal = <<2, 3, 1>>

RECURSIVE SumOf(_)
SumOf(s) == IF s = <<>> THEN 0 ELSE s[1] + SumOf(Tail(s))

\* C15 as stated: expansion() holds exactly 2^n_vars scalar slots.
C15_ExactlyLiveSlots ==
  qpc = "live" => Len(Expansion(query)) * q_width = Pow2(query.n_vars)

\* C15: expansion() is the prefix of max(2^n_vars / WIDTH, 1) packed units
\* of the buffer, n_vars being the number of challenges folded so far: its
\* first 2^n_vars scalar slots are live (a count that doubles with each
\* challenge), the slots beyond them in a single packed unit are zero, and
\* the packed units of the tail capacity are outside it and still zero.
C15_LivePrefix ==
  qpc = "live" =>
    LET e == Expansion(query)
        n == query.n_vars
    IN  /\ n = SumOf(q_splits)
        /\ Len(e) = Max2(Pow2(n) \div q_width, 1)
        /\ Len(e) <= Len(query.expanded_query)
        /\ e = SubSeq(query.expanded_query, 1, Len(e))
        /\ \A p \in Pow2(n) .. Len(e) * q_width - 1 :
             ScalarAt(e, p, q_width) = 0
        /\ \A i \in Len(e) + 1 .. Len(query.expanded_query) :
             query.expanded_query[i] = PackedZero(q_width)

C15_Witness ==
  /\ qpc = "live"
  /\ q_width = 4
  /\ q_max = 3
  /\ query.n_vars = 1
  /\ Len(Expansion(query)) = 1
  /\ Len(query.expanded_query) = 2

----------------------------------------------------------------------------
\* C16: evaluate fails with IncorrectQuerySize (expected: outer n_vars) when
\* the query length differs from the outer n_vars, and otherwise returns
\* what the inner composition returns on the subquery gathered through
\* indices; degree and binary_tower_level are the inner composition's and
\* n_vars is the outer size.
C16_EvaluateGathers ==
  /\ ipc \in {"built", "evaluated"} =>
       /\ IxNVars(i_built) = Len(i_superset)
       /\ IxDegree(i_built) = i_composition.degree
       /\ IxBinaryTowerLevel(i_built) = i_composition.tower_level
  /\ ipc = "evaluated" =>
       IF Len(i_query) # Len(i_superset)
       THEN i_ret = Err([kind |-> "IncorrectQuerySize",
                         expected |-> Len(i_superset)])
       ELSE i_ret = CompositionEvaluate(i_composition,
                      [j \in 1 .. Len(i_built.indices) |->
                         i_query[i_built.indices[j] + 1]])

C16_Witness ==
  /\ ipc = "evaluated"
  /\ i_superset = <<"a", "b">>
  /\ i_subset = <<"b", "a">>
  /\ i_composition.n_vars = 2
  /\ i_query = <<1, 3>>
  /\ i_ret = Ok(FAdd(FMul(1, 3), FMul(2, 1)))

\* C17: index_composition fails with MixedMultilinearNotFound if and only
\* if some element of subset equals no element of superset; otherwise
\* n_vars = len(superset) and indices[j] is the first position of superset
\* holding an element equal to subset[j], hence < n_vars.
C17_NotFoundIffMissing ==
  LET missing == \E j \in Indices(i_subset) :
                   \A k \in Indices(i_superset) : i_superset[k] # i_subset[j]
  IN  ipc \notin {"idle", "input"} =>
        /\ (ipc = "MixedMultilinearNotFound") <=> missing
        /\ ~missing =>
             /\ i_built.n_vars = Len(i_superset)
             /\ Len(i_built.indices) = Len(i_subset)
             /\ \A j \in Indices(i_subset) :
                  LET k == i_built.indices[j] IN
                    /\ k \in 0 .. i_built.n_vars - 1
                    /\ i_superset[k + 1] = i_subset[j]
                    /\ \A l \in 0 .. k - 1 : i_superset[l + 1] # i_subset[j]

C17_Witness ==
  /\ ipc = "built"
  /\ i_superset = <<"a", "a">>
  /\ i_subset = <<"a", "a">>
  /\ i_built.indices = <<0, 0>>

\* C18 as stated: every IndexComposition returned by index_composition has
\* as many indices as the arity of its inner composition; a composition of
\* another arity is rejected by the constructing call.
C18_ArityMatchesIndices ==
  ipc \in {"built", "evaluated"} =>
    Len(i_built.indices) = i_built.composition.n_vars

----------------------------------------------------------------------------
\* what C19 says get returns, decided in the order it gives
GetOutcome(es, level, id) ==
  IF id >= Len(es) \/ es[id + 1] = None THEN "MissingWitness"
  ELSE IF es[id + 1].val.backing = None
  THEN "NoExplicitBackingMultilinearExtension"
  ELSE IF es[id + 1].val.backing.val.tower_level # level
  THEN "OracleTowerHeightMismatch"
  ELSE "success"

\* C19: in every state of the witness index, get at level L on id is
\* MissingWitness if id is beyond the registry or its slot is empty, else
\* NoExplicitBackingMultilinearExtension if the entry has no backing, else
\* OracleTowerHeightMismatch if the backing's level is not L, else success;
\* a get call leaves the registry as it was.
C19_GetOutcomeOrder ==
  wpc = "live" =>
    /\ \A id \in 0 .. MaxId + 1 : \A level \in Levels :
         LET ret == Get(entries, level, id)
             outcome == GetOutcome(entries, level, id)
         IN  IF outcome = "success" THEN ret.ok
             ELSE ~ret.ok /\ ret.val.kind = outcome
    /\ w_got # None =>
         /\ entries = w_got.val.before
         /\ w_got.val.ret = Get(entries, w_got.val.level, w_got.val.id)

C19_Witness ==
  /\ wpc = "live"
  /\ w_got # None
  /\ ~w_got.val.ret.ok
  /\ w_got.val.ret.val.kind = "OracleTowerHeightMismatch"
  /\ Len(entries) = 2
  /\ entries[1].some
  /\ ~entries[1].val.backing.some

\* C20: while no later update names id, get on id at the level of its
\* registration by update_owned, update_borrowed or update_packed returns
\* exactly the registered values, whatever else was registered since; get at
\* any other level fails; get on an id no update has named fails.
C20_RoundTrip ==
  wpc = "live" =>
    /\ \A id \in OracleIds : w_reg[id] # None =>
         \A level \in Levels :
           IF level = w_reg[id].val.level
           THEN Get(entries, level, id) = Ok([evals |-> w_reg[id].val.values])
           ELSE ~Get(entries, level, id).ok
    /\ \A id \in 0 .. MaxId + 1 :
         (\A k \in Indices(w_order) : w_order[k] # id) =>
           \A level \in Levels : ~Get(entries, level, id).ok

C20_Witness ==
  /\ wpc = "live"
  /\ w_order = <<0, 1>>
  /\ w_reg[0] = Some([level |-> 0, values |-> << <<0, 1>>, <<1, 1>> >>])
  /\ w_reg[1] # None
  /\ w_reg[1].val.level = 1
  /\ w_got # None
  /\ w_got.val.id = 0
  /\ w_got.val.ret = Ok([evals |-> << <<0, 1>>, <<1, 1>> >>])

----------------------------------------------------------------------------
\* a step of one of the four update operations
IsUpdateStep == w_got = None /\ w_got' = None

\* C21 as stated: once an identifier is registered, no later update changes
\* the values, tower level or handle stored for it.
C21_ReadOnlyAfterRegistration ==
  [][wpc' = "live" =>
       \A id \in OracleIds :
         Has(entries, id) =>
           Has(entries', id) /\ entries'[id + 1] = entries[id + 1]]_vars

\* C21: the entry of a registered identifier stays as it is under every
\* update that does not name the identifier; an update that names it puts
\* the new registration in its place (a handle registration leaves the
\* handle and no backing).
C21_ReadOnlyUntilRenamed ==
  [][wpc' = "live" =>
       \A id \in OracleIds :
         /\ (Has(entries, id) /\ ~(IsUpdateStep /\ id \in w_named')) =>
              Has(entries', id) /\ entries'[id + 1] = entries[id + 1]
         /\ (IsUpdateStep /\ id \in w_named') =>
              /\ Has(entries', id)
              /\ w_handle'[id] # None =>
                   entries'[id + 1].val =
                     [type_erased |-> [handle |-> w_handle'[id].val],
                      backing |-> None]
              /\ w_handle'[id] = None => entries'[id + 1].val.backing.some]_vars

C21_Witness ==
  /\ wpc = "live"
  /\ w_track = "frame"
  /\ w_named = {1}
  /\ Has(entries, 0)
  /\ entries[1].val.backing.some
  /\ entries[1].val.backing.val.underliers = <<2, 3>>
  /\ Has(entries, 1)

\* C22: while the last update naming id is an update_multilin_poly, get on
\* id fails with NoExplicitBackingMultilinearExtension at every level,
\* has(id) is true and get_multilin_poly(id) returns the registered handle.
C22_HandleHasNoBacking ==
  wpc = "live" =>
    \A id \in OracleIds :
      w_handle[id] # None =>
        /\ Has(entries, id)
        /\ \A level \in Levels :
             Get(entries, level, id) =
               Err([kind |-> "NoExplicitBackingMultilinearExtension",
                    id |-> id])
        /\ GetMultilinPoly(entries, id) = Ok([handle |-> w_handle[id].val])

C22_Witness ==
  /\ wpc = "live"
  /\ w_handle[0] = Some("h2")
  /\ w_named = {1}
  /\ entries[2].val.backing.some
  /\ w_got # None
  /\ w_got.val.id = 0
  /\ w_got.val.ret.val.kind = "NoExplicitBackingMultilinearExtension"

\* C28: an update changes has, get at every level and get_multilin_poly only
\* for the identifiers it names; slots created by growth for other
\* identifiers are empty (has false, lookups MissingWitness); has(j), once
\* true, stays true.
C28_UpdateFrame ==
  [][(IsUpdateStep /\ wpc' = "live") =>
       \A j \in 0 .. MaxId + 1 :
         /\ j \notin w_named' =>
              /\ Has(entries', j) = Has(entries, j)
              /\ \A level \in Levels :
                   Get(entries', level, j) = Get(entries, level, j)
              /\ GetMultilinPoly(entries', j) = GetMultilinPoly(entries, j)
         /\ (j \notin w_named' /\ j >= Len(entries)) =>
              /\ ~Has(entries', j)
              /\ \A level \in Levels :
                   Get(entries', level, j) =
                     Err([kind |-> "MissingWitness", id |-> j])
              /\ GetMultilinPoly(entries', j) =
                   Err([kind |-> "MissingWitness", id |-> j])
         /\ Has(entries, j) => Has(entries', j)]_vars

C28_Witness ==
  /\ wpc = "live"
  /\ w_track = "frame"
  /\ w_named = {1}
  /\ Len(entries) = 2
  /\ entries[1] = None
  /\ entries[2].some

\* C23: SumcheckClaim::new fails with InvalidComposition if and only if some
\* composition of composite_sums has n_vars() different from n_multilinears;
\* every constructed claim keeps its arguments and has every composition's
\* arity equal to n_multilinears; the empty list is accepted.
C23_NewChecksArity ==
  kpc # "input" =>
    LET mismatch == \E i \in Indices(k_composite_sums) :
                      IxNVars(k_composite_sums[i].composition) # k_n_multilinears
    IN  /\ (kpc = "InvalidComposition") <=> mismatch
        /\ k_composite_sums = <<>> => kpc # "InvalidComposition"
        /\ kpc \in {"built", "measured"} =>
             /\ k_claim.n_vars = k_n_vars
             /\ k_claim.n_multilinears = k_n_multilinears
             /\ k_claim.composite_sums = k_composite_sums
             /\ \A i \in Indices(k_claim.composite_sums) :
                  k_claim.composite_sums[i].composition.n_vars
                    = k_claim.n_multilinears

C23_Witness ==
  /\ kpc = "InvalidComposition"
  /\ Len(k_composite_sums) = 2
  /\ k_composite_sums[1].composition.n_vars = k_n_multilinears
  /\ k_composite_sums[2].composition.n_vars # k_n_multilinears

\* C24: max_individual_degree returns the maximum of degree() over the
\* compositions of the claim's composite sums, and 0 when there is none.
C24_MaxOfDegrees ==
  kpc = "measured" =>
    k_ret = MaxOf([i \in Indices(k_claim.composite_sums) |->
                     k_claim.composite_sums[i].composition.degree])

\* C25: when a prover returns an error from execute, fold or finish,
\* batch_prove returns that error with no output and no proof; the failing
\* call is the last call of the log, so no sample, observe, execute, fold or
\* finish follows it, and every call before it returned normally.
C25_ProverErrorEndsBatch ==
  LET failing == {i \in Indices(log) :
                    log[i].op \in {"execute_err", "fold_err", "finish_err"}}
  IN  /\ result = "ProverError" =>
           /\ pc = "done"
           /\ output = EmptyOutput
           /\ proof = DefaultProof
           /\ failing = {Len(log)}
      /\ failing # {} => result = "ProverError"

C25_Witness ==
  /\ result = "ProverError"
  /\ Len(provers) = 2
  /\ log[Len(log)].op = "fold_err"
  /\ log[Len(log)].p = 2
  /\ \E i \in Indices(log) : log[i].op = "fold"

\* C26 (as stated): for every RoundCoeffs c of any length and
\* s = c(0) + c(1), c.truncate().recover(s) equals c.
C26_RoundTripAnyLength ==
  cpc = "roundtrip" => c_out = c_coeffs

\* C26 (amended): truncate removes exactly the last coefficient of a
\* non-empty c and leaves the empty c alone; recover appends exactly one
\* coefficient to the retained prefix; with s = c(0) + c(1) the round trip
\* returns c when c has at least two coefficients, and the single
\* coefficient zero when c has at most one.
C26_RoundTrip ==
  cpc = "roundtrip" =>
    LET kept == Truncate(c_coeffs)
        s == FAdd(PolyEval(c_coeffs, 0), PolyEval(c_coeffs, 1))
    IN  /\ IsPrefix(kept, c_coeffs)
        /\ Len(kept) = IF c_coeffs = <<>> THEN 0 ELSE Len(c_coeffs) - 1
        /\ c_out = Recover(kept, s)
        /\ IsPrefix(kept, c_out)
        /\ Len(c_out) = Len(kept) + 1
        /\ Len(c_coeffs) >= 2 => c_out = c_coeffs
        /\ Len(c_coeffs) <= 1 => c_out = <<0>>

C26_Witness ==
  /\ cpc = "roundtrip"
  /\ Len(c_coeffs) = 2
  /\ c_coeffs[1] # 0
  /\ c_coeffs[2] # 0
  /\ c_out = c_coeffs

\* C27: when batch_prove returns ClaimsOutOfOrder it has made no sample and
\* no observe call on the transcript and no execute, fold or finish call on
\* any prover, and it returns neither output nor proof.
C27_RejectionHasNoEffect ==
  result = "ClaimsOutOfOrder" =>
    /\ pc = "done"
    /\ ~\E i \in Indices(log) : IsTranscriptOp(log[i]) \/ IsProverOp(log[i])
    /\ log = <<>>
    /\ challenges = <<>>
    /\ rounds = <<>>
    /\ output = EmptyOutput
    /\ proof = DefaultProof

C27_Witness ==
  /\ result = "ClaimsOutOfOrder"
  /\ pc = "done"
  /\ log = <<>>
  /\ Len(provers) = 2
  /\ Arities[1] = 0
  /\ Arities[2] = MaxVars

\* the hypercube point whose little-endian integer value is x
Vertex(n, x) == [i \in 1 .. n |-> Bit(x, i - 1)]

StepAt(index, x) == IF x < index THEN 1 ELSE 0

\* what StepDown::new does with its arguments: fails for index 0 and for
\* index >= 2^n_vars, succeeds otherwise
StepNewOutcome ==
  spc # "input" =>
    /\ (spc = "ArgumentRangeError") <=>
         (s_index = 0 \/ s_index >= Pow2(s_n_vars))
    /\ spc # "ArgumentRangeError" =>
         s_self = [n_vars |-> s_n_vars, index |-> s_index]

\* evaluate at the hypercube points is the step
StepEvaluateOnCube ==
  spc \in {"built", "evaluated", "extended"} =>
    \A x \in 0 .. Pow2(s_n_vars) - 1 :
      StepDownEvaluate(s_self, Vertex(s_n_vars, x)) = Ok(StepAt(s_index, x))

\* C29 (as stated): whenever 1 <= index < 2^n_vars, new succeeds, evaluate
\* at the hypercube point of value x is 1 if x < index and 0 otherwise, and
\* that is the x-th value of multilinear_extension(); new fails for index 0
\* and for index >= 2^n_vars.
C29_StepEverywhere ==
  /\ StepNewOutcome
  /\ StepEvaluateOnCube
  /\ spc = "extended" =>
       /\ s_ret.ok
       /\ \A x \in 0 .. Pow2(s_n_vars) - 1 :
            ScalarAt(s_ret.val.evals, x, Pow2(s_arg[1])) = StepAt(s_index, x)

\* C29 (amended): whenever 1 <= index < 2^n_vars, new succeeds and evaluate
\* at the hypercube point of value x is 1 if x < index and 0 otherwise;
\* multilinear_extension() over a packed field of 2^LOG_WIDTH scalars fails
\* with PackedFieldNotFilled when n_vars < LOG_WIDTH and otherwise returns
\* 2^(n_vars - LOG_WIDTH) packed values whose x-th scalar is that step; new
\* fails for index 0 and for index >= 2^n_vars, so always for n_vars = 0.
C29_StepWherePacked ==
  /\ StepNewOutcome
  /\ StepEvaluateOnCube
  /\ spc = "evaluated" =>
       s_ret = StepDownEvaluate(s_self, s_arg)
  /\ spc = "extended" =>
       IF s_n_vars < s_arg[1]
       THEN /\ ~s_ret.ok
            /\ s_ret.val.kind = "PackedFieldNotFilled"
       ELSE /\ s_ret.ok
            /\ Len(s_ret.val.evals) = Pow2(s_n_vars - s_arg[1])
            /\ \A x \in 0 .. Pow2(s_n_vars) - 1 :
                 ScalarAt(s_ret.val.evals, x, Pow2(s_arg[1]))
                   = StepAt(s_index, x)

C29_Witness ==
  /\ spc = "extended"
  /\ s_n_vars = 3
  /\ s_index = 5
  /\ s_arg = <<1>>
  /\ s_ret.ok
  /\ s_ret.val.evals = <<<<1, 1>>, <<1, 1>>, <<1, 0>>, <<0, 0>>>>

====
